---- MODULE Spec2Model ----
(***************************************************************************)
(* Request-boundary trust layer of the Taleji blog server:                 *)
(*   - the middleware stack built in main (src/src/main.rs) out of the     *)
(*     functions of src/src/security.rs: RateLimiter::check_rate_limit,    *)
(*     csrf_protection, security_headers, request_id;                      *)
(*   - the token service of src/src/auth.rs (generate_token,               *)
(*     validate_token).                                                    *)
(* Time is counted in abstract clock ticks; durations (rate-limit window,  *)
(* token lifetime, validation leeway) are scaled down to a few ticks.      *)
(* Strings that the code takes apart (the x-forwarded-for header, host     *)
(* names) are sequences: of one-character strings, or of DNS labels.       *)
(***************************************************************************)
EXTENDS Integers, Sequences, FiniteSets, TLC

(* ------------------------------ bounds --------------------------------- *)

\* total number of requests that enter the stack in one behaviour
MaxArrivals == 4
\* last instant of the clock
MaxTime == 2
\* RateLimiter.max_requests (100 in main), scaled down
MaxRequests == 2
\* RateLimiter.window (60 s in main), scaled down to ticks
WindowDuration == 2

\* the tokio tasks that serve requests concurrently
\* last instant of the wall clock
MaxUtc == 4
\* AuthService.jwt_expiry_hours (24 by default), scaled down to ticks
JwtExpiryHours == 2
\* the leeway of jsonwebtoken's Validation::new (60 s), scaled down to ticks
DefaultLeeway == 1
\* number of tokens issued in one behaviour
MaxTokens == 2
\* last instant of the clock and number of requests in a logged burst
MaxBurstTime == 4
MaxBurstArrivals == 5
\* instants of the wall clock while forged tokens are presented
ForgeMaxUtc == 1
\* last instant of the wall clock while accounts are being deactivated
DirMaxUtc == 2

Workers == {1, 2}

(* --------------------------- request inputs ---------------------------- *)

\* the x-forwarded-for header: absent, or a header value (a string)
NoHeader == [present |-> FALSE, value |-> <<>>]
Header(v) == [present |-> TRUE, value |-> v]
XffValues ==
    { NoHeader,
      Header(<<"a">>),
      Header(<<" ", "a", " ", ",", "b">>) }

\* request methods; Method::as_str gives the upper-case name
Methods == {"GET", "HEAD", "OPTIONS", "POST", "DELETE"}

\* an Origin / Referer header: absent, present but not parseable by the typed
\* header, or a URL whose host is a sequence of labels
NoUrl == [kind |-> "absent", host |-> <<>>]
BadUrl == [kind |-> "invalid", host |-> <<>>]
Url(h) == [kind |-> "url", host |-> h]
OriginValues ==
    { NoUrl, BadUrl,
      Url(<<"localhost">>),
      Url(<<"app", "your-domain", "com">>),
      Url(<<"evil", "example">>) }
RefererValues ==
    { NoUrl,
      Url(<<"localhost">>),
      Url(<<"your-domain", "com">>),
      Url(<<"evil", "example">>) }

\* the set of security headers that security_headers inserts
SecurityHeaderNames ==
    { "x-frame-options", "x-content-type-options", "x-xss-protection",
      "strict-transport-security", "content-security-policy",
      "referrer-policy", "permissions-policy" }

(* ---------------------------- pure helpers ----------------------------- *)

\* str::split(',').next(): the part of s before its first comma
RECURSIVE SplitFirst(_)
SplitFirst(s) ==
    IF s = <<>> \/ Head(s) = "," THEN <<>>
    ELSE <<Head(s)>> \o SplitFirst(Tail(s))

RECURSIVE TrimStart(_)
TrimStart(s) ==
    IF s # <<>> /\ Head(s) = " " THEN TrimStart(Tail(s)) ELSE s

RECURSIVE TrimEnd(_)
TrimEnd(s) ==
    IF s # <<>> /\ s[Len(s)] = " " THEN TrimEnd(SubSeq(s, 1, Len(s) - 1)) ELSE s

\* str::trim
Trim(s) == TrimEnd(TrimStart(s))

\* the literal fallback bucket
Unknown == <<"u", "n", "k", "n", "o", "w", "n">>

\* the whole header value taken as the bucket
ClientIpWholeHeader(xff) == IF xff.present THEN xff.value ELSE Unknown

\* client_ip of check_rate_limit
ClientIp(xff) ==
    IF xff.present THEN Trim(SplitFirst(xff.value)) ELSE Unknown

Clients == { ClientIp(x) : x \in XffValues }

\* Instant::duration_since saturates to zero
DurationSince(later, earlier) ==
    IF later >= earlier THEN later - earlier ELSE 0

\* headers.typed_get::<Origin>() / ::<Referer>(): Some(url) only when the
\* header is present and parses
TypedGet(h) == h.kind = "url"

\* hostname == "localhost" || hostname.ends_with(".your-domain.com")
TrustedHost(h) ==
    \/ h = <<"localhost">>
    \/ /\ Len(h) >= 3
       /\ h[Len(h) - 1] = "your-domain"
       /\ h[Len(h)] = "com"

\* origin.map(|o| ...).unwrap_or(false)
ValidOrigin(o) == IF TypedGet(o) THEN TrustedHost(o.host) ELSE FALSE

\* a missing Referer counted as valid (unwrap_or(true))
ValidRefererLenient(f) == IF TypedGet(f) THEN TrustedHost(f.host) ELSE TRUE

\* referer.map(|r| ...).unwrap_or(false)
ValidReferer(f) == IF TypedGet(f) THEN TrustedHost(f.host) ELSE FALSE

\* an exemption that covers GET alone
SafeMethodGetOnly(m) == m = "GET"

\* matches!(request.method().as_str(), "GET" | "HEAD" | "OPTIONS")
SafeMethod(m) == m \in {"GET", "HEAD", "OPTIONS"}

\* the condition under which csrf_protection returns Err(FORBIDDEN)
CsrfRejects(m, o, f) ==
    /\ ~SafeMethod(m)
    /\ ~ValidOrigin(o) /\ ~ValidReferer(f)

(* ------------------------------- state --------------------------------- *)

VARIABLES
    clock,      \* Instant::now()
    requests,   \* RateLimiter.requests: client -> (count, window start)
    lock,       \* holder of the RwLock write guard, 0 when free
    pc,         \* position of each task in the stack
    loc,        \* locals of check_rate_limit: the x-forwarded-for header
                \* of the request, client_ip, now, the client's entry as
                \* the call found it, loaded count
    rsp,        \* the response of each task: status and header names
    verdict,    \* per task: whether the limiter counted the request, what
                \* the limiter and the guard decided, whether the handler
                \* ran, and what the reference limiter expects
    arrivals,   \* number of requests that entered so far
    seen,       \* client identifiers that entered so far
    calls,      \* per client: calls counted and admitted in the live window
    ref,        \* per client: the window of the reference fixed-window counter

    gin,        \* origin guard taken alone: the request it is applied to
    gout,       \* origin guard taken alone: its outcome
    utc,        \* Utc::now()
    leeway,     \* Validation.leeway of the jsonwebtoken build in use
    jti,        \* number of token ids Uuid::new_v4 has produced
    issued,     \* the tokens generate_token returned: token, account, instant
    vres,       \* the last validate_token call: token, instant, result
    hist,       \* whether and when the limiter's Allowed answers are logged
    perm,       \* the check_permission calls made so far, with their results
    conv,       \* the AppError values converted for the caller so far
    users,      \* the Account Directory: the rows of table users
    nextid,     \* the Account Directory: the next value of the id sequence
    apc,        \* position of each register_user / login_user call
    ain,        \* the input of each register_user / login_user call
    ares,       \* the result of each register_user / login_user call
    dirup,      \* the Account Directory: whether it answers queries
    dcalls      \* per call: the directory queries made, by kind

mwvars == <<requests, lock, pc, loc, rsp, verdict, arrivals, seen,
            calls, ref, hist>>
guardvars == <<gin, gout>>
authvars == <<utc, leeway, jti, issued, vres>>
dirvars == <<users, nextid, apc, ain, ares, dirup, dcalls>>
offstack == <<guardvars, authvars, dirvars, perm, conv>>
vars == <<clock, mwvars, offstack>>

NoEntry == [present |-> FALSE, count |-> 0, start |-> 0]
Entry(c, s) == [present |-> TRUE, count |-> c, start |-> s]

NoRequest == [method |-> "GET", origin |-> NoUrl, referer |-> NoUrl]
NoLocals ==
    [xff |-> NoHeader, client |-> Unknown, now |-> 0, pre |-> NoEntry,
     cnt |-> 0, reset |-> FALSE]
NoResponse == [status |-> 0, headers |-> {}]
NoVerdict == [counted |-> FALSE, rl |-> "none", csrf |-> "none",
              handled |-> FALSE, expect |-> "none"]
NoCalls == [n |-> 0, ok |-> 0]
NoRef == [open |-> FALSE, start |-> 0, k |-> 0, prev |-> 0]
NoLog == [on |-> FALSE, at |-> [t \in 0..MaxBurstTime |-> 0]]

InitStack ==
    /\ clock = 0
    /\ requests = [c \in Clients |-> NoEntry]
    /\ lock = 0
    /\ pc = [r \in Workers |-> "idle"]
    /\ loc = [r \in Workers |-> NoLocals]
    /\ rsp = [r \in Workers |-> NoResponse]
    /\ verdict = [r \in Workers |-> NoVerdict]
    /\ arrivals = 0
    /\ seen = {}
    /\ calls = [c \in Clients |-> NoCalls]
    /\ ref = [c \in Clients |-> NoRef]

InitLog == hist = NoLog

InitGuard ==
    /\ gin = NoRequest
    /\ gout = "none"

InitPerm == perm = {}

InitConv == conv = {}


(* ------------------------------ the clock ------------------------------ *)

\* Instant::now() moves on, up to the instant last
Advance(last) ==
    /\ clock < last
    /\ clock' = clock + 1
    /\ UNCHANGED <<mwvars, offstack>>

Tick == Advance(MaxTime)


(* ----------------- RateLimiter::check_rate_limit ----------------------- *)

\* the pipeline positions at which a task executes lines 144-164, between
\* taking the write guard and the limit decision
CriticalSection ==
    {"rl_retain", "rl_entry", "rl_window", "rl_update", "rl_limit"}

\* the positions downstream of the limiter (inside next.run of line 166)
Downstream ==
    {"csrf", "sec_in", "rid_in", "handler", "handling", "rid_out", "sec_out",
     "rl_ret"}

\* a stack whose outermost layer is the origin guard
FirstStageGuard == "csrf"

\* main lines 55-61: the layer added last, check_rate_limit, is the
\* outermost one and gets the request first
FirstStage == "rl_lock"

\* lines 132-140: a request enters; client_ip is derived from the
\* x-forwarded-for header and now is read from the clock. The requests of a
\* behaviour are at most limit, their header one of headers
Arrive(r, limit, headers) ==
    /\ pc[r] = "idle"
    /\ \A q \in Workers : q < r => pc[q] # "idle"
    /\ arrivals < limit
    /\ arrivals' = arrivals + 1
    /\ \E x \in headers :
          /\ loc' = [loc EXCEPT ![r] =
                        [xff |-> x, client |-> ClientIp(x), now |-> clock,
                         pre |-> NoEntry, cnt |-> 0, reset |-> FALSE]]
          /\ seen' = seen \cup {ClientIp(x)}
    /\ pc' = [pc EXCEPT ![r] = FirstStage]
    /\ UNCHANGED <<clock, requests, lock, rsp, verdict, calls, ref, hist,
                   offstack>>

RL_Enter(r) == Arrive(r, MaxArrivals, XffValues)

\* a lock that hands out its guard without excluding the current holder
WriteAvailableShared == TRUE

\* the write guard is exclusive: it is granted only when nobody holds it
WriteAvailable == lock = 0

\* line 141: self.requests.write().await returns the write guard; which of
\* the waiting tasks gets it is left open. The map is now this call's: the
\* entry it holds for the client is noted
RL_Write(r) ==
    /\ pc[r] = "rl_lock"
    /\ WriteAvailable
    /\ lock' = r
    /\ loc' = [loc EXCEPT ![r].pre = requests[loc[r].client]]
    /\ pc' = [pc EXCEPT ![r] = "rl_retain"]
    /\ UNCHANGED <<clock, requests, rsp, verdict, arrivals, seen, calls,
                   ref, hist, offstack>>

\* a retain that keeps every entry
LiveAlways(e, now) == e.present

\* a retain that also keeps an entry exactly window_duration old
LiveInclusive(e, now) ==
    e.present /\ DurationSince(now, e.start) <= WindowDuration

\* the predicate of retain, line 144: the entry's window has not elapsed
Live(e, now) == e.present /\ DurationSince(now, e.start) < WindowDuration

\* line 144: requests.retain(...), over the whole map
RL_Retain(r) ==
    /\ pc[r] = "rl_retain"
    /\ requests' = [c \in Clients |->
                       IF Live(requests[c], loc[r].now) THEN requests[c]
                       ELSE NoEntry]
    /\ calls' = [c \in Clients |->
                    IF Live(requests[c], loc[r].now) THEN calls[c]
                    ELSE NoCalls]
    /\ pc' = [pc EXCEPT ![r] = "rl_entry"]
    /\ UNCHANGED <<clock, lock, loc, rsp, verdict, arrivals, seen, ref,
                   hist, offstack>>

\* line 147: requests.entry(client_ip).or_insert((0, now))
RL_Entry(r) ==
    /\ pc[r] = "rl_entry"
    /\ requests' = [requests EXCEPT ![loc[r].client] =
                       IF @.present THEN @ ELSE Entry(0, loc[r].now)]
    /\ pc' = [pc EXCEPT ![r] = "rl_window"]
    /\ UNCHANGED <<clock, lock, loc, rsp, verdict, arrivals, seen, calls,
                   ref, hist, offstack>>

\* line 149: the window test, and the load of *count for the update
RL_Window(r) ==
    /\ pc[r] = "rl_window"
    /\ loc' = [loc EXCEPT ![r] =
                  [@ EXCEPT
                     !.reset = DurationSince(loc[r].now,
                                             requests[loc[r].client].start)
                               >= WindowDuration,
                     !.cnt = requests[loc[r].client].count]]
    /\ pc' = [pc EXCEPT ![r] = "rl_update"]
    /\ UNCHANGED <<clock, requests, lock, rsp, verdict, arrivals, seen,
                   calls, ref, hist, offstack>>

\* an increment that also moves the window start to the request
IncrementedSliding(e, cnt, now) == Entry(cnt + 1, now)

\* line 154: *count += 1; first_request is left as it is
Incremented(e, cnt, now) == Entry(cnt + 1, e.start)

\* lines 150-155: the store of the reset or incremented window
RL_Update(r) ==
    /\ pc[r] = "rl_update"
    /\ requests' = [requests EXCEPT ![loc[r].client] =
                       IF loc[r].reset THEN Entry(1, loc[r].now)
                       ELSE Incremented(@, loc[r].cnt, loc[r].now)]
    /\ calls' = [calls EXCEPT ![loc[r].client] =
                    IF loc[r].reset THEN [n |-> 1, ok |-> 0]
                    ELSE [@ EXCEPT !.n = @ + 1]]
    /\ verdict' = [verdict EXCEPT ![r] = [@ EXCEPT !.counted = TRUE]]
    /\ pc' = [pc EXCEPT ![r] = "rl_limit"]
    /\ UNCHANGED <<clock, lock, loc, rsp, arrivals, seen, ref, hist,
                   offstack>>

\* a limit test that is off by one
OverLimitInclusive(count) == count >= MaxRequests

\* line 157: *count > self.max_requests
OverLimit(count) == count > MaxRequests

\* the reference fixed-window counter: a request opens a new window when
\* the client has none or window_duration has elapsed since its start,
\* otherwise it is the next request of the open window (prev remembers how
\* many requests the window before had)
RefNext(w, now) ==
    IF ~w.open \/ now - w.start >= WindowDuration
    THEN [open |-> TRUE, start |-> now, k |-> 1, prev |-> w.k]
    ELSE [w EXCEPT !.k = @ + 1]

\* what the reference counter answers: the first max_requests requests of a
\* window are allowed
RefAnswer(w) == IF w.k <= MaxRequests THEN "allowed" ELSE "denied"

\* lines 157-166: the decision. Denied returns Err(429) and drops the
\* guard; Allowed calls next.run(request) with the guard still alive. The
\* locals client_ip, now, count are dead from here on
RL_Limit(r) ==
    LET c == loc[r].client
        denied == OverLimit(requests[c].count)
        w == RefNext(ref[c], loc[r].now)
    IN  /\ pc[r] = "rl_limit"
        /\ ref' = [ref EXCEPT ![c] = w]
        /\ verdict' = [verdict EXCEPT ![r] =
                          [@ EXCEPT !.rl = IF denied THEN "denied" ELSE "allowed",
                                    !.expect = RefAnswer(w)]]
        /\ IF denied
           THEN /\ rsp' = [rsp EXCEPT ![r] = [status |-> 429, headers |-> {}]]
                /\ lock' = IF lock = r THEN 0 ELSE lock
                /\ pc' = [pc EXCEPT ![r] = "done"]
                /\ UNCHANGED calls
                /\ UNCHANGED hist
           ELSE /\ calls' = [calls EXCEPT ![c] = [@ EXCEPT !.ok = @ + 1]]
                /\ pc' = [pc EXCEPT ![r] = "csrf"]
                /\ hist' = IF hist.on
                           THEN [hist EXCEPT !.at[clock] = @ + 1]
                           ELSE hist
                /\ UNCHANGED <<rsp, lock>>
        /\ loc' = [loc EXCEPT ![r] = NoLocals]
        /\ UNCHANGED <<clock, requests, arrivals, seen, offstack>>

\* line 166-167: next.run returned; the function returns its response and
\* the write guard goes out of scope
RL_Return(r) ==
    /\ pc[r] = "rl_ret"
    /\ lock' = IF lock = r THEN 0 ELSE lock
    /\ pc' = [pc EXCEPT ![r] = "done"]
    /\ UNCHANGED <<clock, requests, loc, rsp, verdict, arrivals, seen, calls,
                   ref, hist, offstack>>

(* --------------------------- csrf_protection --------------------------- *)

\* a guard that goes on to the next stage whatever it found
CsrfNextFallThrough(m, o, f) == "sec_in"

\* lines 79-105: Err(FORBIDDEN) goes back to the caller, everything else
\* runs the next stage
CsrfNext(m, o, f) == IF CsrfRejects(m, o, f) THEN "rl_ret" ELSE "sec_in"

\* lines 74-106, inside the stack: the method, the Origin and the Referer
\* headers of the request are read here
CSRF_Check(r) ==
    /\ pc[r] = "csrf"
    /\ \E m \in Methods, o \in OriginValues, f \in RefererValues :
          /\ verdict' = [verdict EXCEPT ![r] =
                            [@ EXCEPT !.csrf = IF CsrfRejects(m, o, f)
                                               THEN "reject" ELSE "pass"]]
          /\ rsp' = [rsp EXCEPT ![r] =
                        IF CsrfRejects(m, o, f)
                        THEN [status |-> 403, headers |-> {}] ELSE @]
          /\ pc' = [pc EXCEPT ![r] = CsrfNext(m, o, f)]
    /\ UNCHANGED <<clock, requests, lock, loc, arrivals, seen, calls, ref,
                   hist, offstack>>

(* ----------------- security_headers, request_id, handler --------------- *)

\* security_headers line 24: the request is handed to the next stage
SH_Enter(r) ==
    /\ pc[r] = "sec_in"
    /\ pc' = [pc EXCEPT ![r] = "rid_in"]
    /\ UNCHANGED <<clock, requests, lock, loc, rsp, verdict, arrivals, seen,
                   calls, ref, hist, offstack>>

\* request_id lines 176-184: the request is tagged with a fresh id and
\* handed to the handler
RID_Enter(r) ==
    /\ pc[r] = "rid_in"
    /\ pc' = [pc EXCEPT ![r] = "handler"]
    /\ UNCHANGED <<clock, requests, lock, loc, rsp, verdict, arrivals, seen,
                   calls, ref, hist, offstack>>

\* the status the application routes answer with
HandlerStatuses == {200}

\* main lines 44-53: the application handler starts on the request
Handler_Start(r) ==
    /\ pc[r] = "handler"
    /\ verdict' = [verdict EXCEPT ![r] = [@ EXCEPT !.handled = TRUE]]
    /\ pc' = [pc EXCEPT ![r] = "handling"]
    /\ UNCHANGED <<clock, requests, lock, loc, rsp, arrivals, seen, calls,
                   ref, hist, offstack>>

\* the handler completes with its response
Handler_Finish(r) ==
    /\ pc[r] = "handling"
    /\ \E st \in HandlerStatuses :
          rsp' = [rsp EXCEPT ![r] = [status |-> st, headers |-> {}]]
    /\ pc' = [pc EXCEPT ![r] = "rid_out"]
    /\ UNCHANGED <<clock, requests, lock, loc, verdict, arrivals, seen,
                   calls, ref, hist, offstack>>

\* request_id lines 186-192: the id is echoed on the response
RID_Exit(r) ==
    /\ pc[r] = "rid_out"
    /\ rsp' = [rsp EXCEPT ![r] =
                  [@ EXCEPT !.headers = @ \cup {"x-request-id"}]]
    /\ pc' = [pc EXCEPT ![r] = "sec_out"]
    /\ UNCHANGED <<clock, requests, lock, loc, verdict, arrivals, seen,
                   calls, ref, hist, offstack>>

\* security_headers lines 26-69: the fixed headers are inserted; then
\* csrf_protection line 105 passes the response on to the limiter
SH_Exit(r) ==
    /\ pc[r] = "sec_out"
    /\ rsp' = [rsp EXCEPT ![r] =
                  [@ EXCEPT !.headers = @ \cup SecurityHeaderNames]]
    /\ pc' = [pc EXCEPT ![r] = "rl_ret"]
    /\ UNCHANGED <<clock, requests, lock, loc, verdict, arrivals, seen,
                   calls, ref, hist, offstack>>

\* the response leaves the server and the task ends
Respond(r) ==
    /\ pc[r] = "done"
    /\ pc' = [pc EXCEPT ![r] = "idle"]
    /\ rsp' = [rsp EXCEPT ![r] = NoResponse]
    /\ verdict' = [verdict EXCEPT ![r] = NoVerdict]
    /\ UNCHANGED <<clock, requests, lock, loc, arrivals, seen, calls, ref,
                   hist, offstack>>

(* ------------------- the origin guard taken alone ---------------------- *)

\* the requests the guard is applied to
GuardInputs ==
    [method : Methods, origin : OriginValues, referer : RefererValues]

\* csrf_protection applied to the request gin: Err(FORBIDDEN), or the
\* response of the next stage
Guard_Apply ==
    /\ gout = "none"
    /\ gout' = IF CsrfNext(gin.method, gin.origin, gin.referer) = "rl_ret"
               THEN "forbidden" ELSE "next"
    /\ UNCHANGED <<clock, mwvars, gin, authvars, dirvars, perm, conv>>

(* ---------------------------- token service -------------------------- *)

\* UserRole
Roles == {"User", "Author", "Admin"}

\* the accounts tokens are issued for: id, username, role of a User row
Accounts ==
    { [id |-> i, username |-> IF i = 1 THEN "alice" ELSE "bob", role |-> r] :
        i \in {1, 2}, r \in Roles }

\* AuthService.jwt_secret
JwtSecret == "your-super-secret-jwt-key-change-in-production"

\* a role serialised under the variant's own name, without the serde rename
RoleToJsonVariantName(role) == role

\* #[serde(rename = ...)] of UserRole, serialising
RoleToJson(role) ==
    CASE role = "User" -> "user"
      [] role = "Author" -> "author"
      [] role = "Admin" -> "admin"

\* #[serde(rename = ...)] of UserRole, deserialising; "?" for no variant
RoleFromJson(str) ==
    CASE str = "user" -> "User"
      [] str = "author" -> "Author"
      [] str = "admin" -> "Admin"
      [] OTHER -> "?"

\* one token id for every call
TokenIdConstant(n) == 0

\* Uuid::new_v4().to_string(), line 75: the id drawn by the n-th call, a
\* fresh value each time
TokenId(n) == n

\* generate_token lines 66-76: the claims of a token issued at now
ClaimsFor(user, now, id) ==
    [sub |-> user.id, username |-> user.username, role |-> user.role,
     exp |-> now + JwtExpiryHours, iat |-> now, jti |-> id]

\* serde_json of Claims: the payload of the token
ClaimsToJson(c) ==
    [sub |-> c.sub, username |-> c.username, role |-> RoleToJson(c.role),
     exp |-> c.exp, iat |-> c.iat, jti |-> c.jti]

\* the HS256 signature of header and payload under a key
Sign(key, header, payload) ==
    [key |-> key, header |-> header, payload |-> payload]

\* Header::default()
DefaultHeader == [alg |-> "HS256", typ |-> "JWT"]

\* jsonwebtoken::encode, lines 78-82: the compact form has three
\* dot-separated segments, header, payload and signature
Encode(header, c, key) ==
    [segments |-> 3, header |-> header, payload |-> ClaimsToJson(c),
     sig |-> Sign(key, header, ClaimsToJson(c))]

NoClaims == [sub |-> 0, username |-> "", role |-> "?", exp |-> 0, iat |-> 0,
             jti |-> 0]
NoToken == [segments |-> 0, header |-> [alg |-> "none", typ |-> "JWT"],
            payload |-> NoClaims, sig |-> Sign("", "", "")]
Unauthorized == [ok |-> FALSE, claims |-> NoClaims]

\* a decode that accepts any signature
SignatureUnchecked(tok, key) == TRUE

\* decode with DecodingKey::from_secret(jwt_secret), lines 91-94: the
\* signature segment is the HS256 signature of header and payload under key
SignatureValid(tok, key) == tok.sig = Sign(key, tok.header, tok.payload)

\* jsonwebtoken::decode under Validation::new(HS256), lines 91-100: the
\* token is split into its segments, the algorithm and the signature are
\* verified, exp is validated with the
\* library's leeway, the payload is deserialised; every error becomes
\* AppError::Unauthorized
Decode(tok, key, now, lw) ==
    IF tok.segments # 3 THEN Unauthorized
    ELSE IF tok.header.alg # "HS256" THEN Unauthorized
    ELSE IF ~SignatureValid(tok, key) THEN Unauthorized
    ELSE IF tok.payload.exp < now - lw THEN Unauthorized
    ELSE IF RoleFromJson(tok.payload.role) = "?" THEN Unauthorized
    ELSE [ok |-> TRUE,
          claims |-> [tok.payload EXCEPT
                         !.role = RoleFromJson(tok.payload.role)]]

InitAuth ==
    /\ utc = 0
    /\ leeway \in {0, DefaultLeeway}
    /\ jti = 0
    /\ issued = {}
    /\ vres = [tok |-> NoToken, at |-> 0, res |-> Unauthorized,
               live |-> FALSE]

\* Utc::now() moves on, up to the instant last
UtcAdvance(last) ==
    /\ utc < last
    /\ utc' = utc + 1
    /\ UNCHANGED <<clock, mwvars, guardvars, dirvars, perm, conv,
                   leeway, jti, issued, vres>>

UtcTick == UtcAdvance(MaxUtc)

\* generate_token lines 66-82: the token of the n-th call, made at now
TokenFor(user, now, n) ==
    Encode(DefaultHeader, ClaimsFor(user, now, TokenId(n)), JwtSecret)

\* AuthService::generate_token, lines 65-87
GenerateToken(user) ==
    /\ Cardinality(issued) < MaxTokens
    /\ jti' = jti + 1
    /\ issued' = issued \cup
          {[tok |-> TokenFor(user, utc, jti + 1), user |-> user, at |-> utc]}
    /\ UNCHANGED <<clock, mwvars, guardvars, dirvars, perm, conv, utc,
                   leeway, vres>>

\* a validation that also asks the directory for an active account
ValidateResultActiveOnly(tok, rows) ==
    IF \E u \in rows : u.id = tok.payload.sub /\ u.is_active
    THEN Decode(tok, JwtSecret, utc, leeway)
    ELSE Unauthorized

\* validate_token, lines 90-101: self, the token and the clock are all the
\* function reads; it has no access to the directory rows
ValidateResult(tok, rows) == Decode(tok, JwtSecret, utc, leeway)

\* AuthService::validate_token, lines 90-101, on a token a client presents;
\* live notes whether the directory held an active account for its subject
ValidateToken(tok) ==
    /\ vres' = [tok |-> tok, at |-> utc,
                res |-> ValidateResult(tok, users),
                live |-> \E u \in users :
                            u.id = tok.payload.sub /\ u.is_active]
    /\ UNCHANGED <<clock, mwvars, guardvars, dirvars, perm, conv, utc,
                   leeway, jti, issued>>

(* --------------------------- check_permission -------------------------- *)

\* a check that accepts only the required role itself
CheckPermissionExact(user_role, required_role) == user_role = required_role

\* AuthService::check_permission, lines 210-216
CheckPermission(user_role, required_role) ==
    CASE required_role = "User" -> TRUE
      [] required_role = "Author" -> user_role \in {"Author", "Admin"}
      [] required_role = "Admin" -> user_role = "Admin"

\* a caller asks whether a holder of user_role may do what needs
\* required_role; the answer is kept
Check_Permission(user_role, required_role) ==
    /\ perm' = perm \cup
          {[held |-> user_role, required |-> required_role,
            result |-> CheckPermission(user_role, required_role)]}
    /\ UNCHANGED <<clock, mwvars, guardvars, authvars, dirvars, conv>>

(* ------------------- AppError to ServerFnError ------------------------- *)

\* the variants of AppError that carry a payload, error.rs lines 6-30
PayloadKinds ==
    {"Database", "Validation", "NotFound", "Forbidden", "Internal", "Config"}

\* AppError values: the variant and its payload (the sqlx::Error of
\* Database, the String of the others, "" for the unit variants)
AppErrors ==
    { [kind |-> "Database",
       detail |-> "duplicate key value violates users_username_key"],
      [kind |-> "Database", detail |-> "connection refused 10.0.0.5:5432"],
      [kind |-> "Validation", detail |-> "Invalid credentials"],
      [kind |-> "Validation", detail |-> "Username or email already exists"],
      [kind |-> "NotFound", detail |-> "User not found"],
      [kind |-> "Unauthorized", detail |-> ""],
      [kind |-> "Forbidden", detail |-> "admin only"],
      [kind |-> "RateLimitExceeded", detail |-> ""],
      [kind |-> "Internal", detail |-> "Password hashing failed"],
      [kind |-> "Config", detail |-> "JWT_SECRET is not set"] }

\* format!("<prefix>{}", msg): the text is the prefix followed by the payload
Format(prefix, msg) == <<prefix, msg>>

\* the Display of AppError (the #[error] attributes) handed to the caller
ToServerFnErrorDisplay(err) ==
    CASE err.kind = "Database" -> Format("Database error: ", err.detail)
      [] err.kind = "Validation" -> Format("Validation error: ", err.detail)
      [] err.kind = "NotFound" -> Format("Not found: ", err.detail)
      [] err.kind = "Unauthorized" -> <<"Unauthorized access">>
      [] err.kind = "Forbidden" -> Format("Forbidden: ", err.detail)
      [] err.kind = "RateLimitExceeded" -> <<"Rate limit exceeded">>
      [] err.kind = "Internal" ->
            Format("Internal server error: ", err.detail)
      [] err.kind = "Config" -> Format("Configuration error: ", err.detail)

\* impl From<AppError> for ServerFnError, error.rs lines 32-43: the
\* message of the ServerFnError
ToServerFnError(err) ==
    CASE err.kind = "NotFound" -> Format("Not found: ", err.detail)
      [] err.kind = "Unauthorized" -> <<"Unauthorized access">>
      [] err.kind = "Forbidden" -> Format("Forbidden: ", err.detail)
      [] err.kind = "Validation" -> Format("Validation error: ", err.detail)
      [] err.kind = "RateLimitExceeded" -> <<"Rate limit exceeded">>
      [] OTHER -> <<"Internal server error">>

\* ServerFnError::from(e) in a server function (pages/auth.rs lines 19-24
\* and 36-41): the error is converted and the message kept
Convert(err) ==
    /\ conv' = conv \cup {[err |-> err, out |-> ToServerFnError(err)]}
    /\ UNCHANGED <<clock, mwvars, guardvars, authvars, dirvars, perm>>

(* -------------------------- Account Directory -------------------------- *)

\* RegisterInput as it reaches register_user: username, email, password
RegisterInputs ==
    { [username |-> "alice", email |-> "alice@example.com",
       password |-> "pw-alice"],
      [username |-> "alice", email |-> "bob@example.com",
       password |-> "pw-alice"],
      [username |-> "bob", email |-> "bob@example.com",
       password |-> "pw-bob"],
      [username |-> "bob", email |-> "alice@example.com",
       password |-> "pw-bob"] }

\* LoginInput as it reaches login_user: email_or_username, password
LoginInputs ==
    [email_or_username : {"alice", "alice@example.com"},
     password : {"pw-alice", "pw-bob"}]

NoInput == [op |-> "none", username |-> "", email |-> "", password |-> ""]
RegisterCall(i) ==
    [op |-> "register", username |-> i.username, email |-> i.email,
     password |-> i.password]
LoginCall(i) ==
    [op |-> "login", username |-> i.email_or_username,
     email |-> i.email_or_username, password |-> i.password]

\* bcrypt::hash(password, DEFAULT_COST), lines 49-54
HashPassword(password) == [alg |-> "bcrypt", of |-> password]

\* a verification that accepts every password
VerifyPasswordAny(password, hash) == TRUE

\* bcrypt::verify(password, hash), lines 57-62
VerifyPassword(password, hash) ==
    hash.alg = "bcrypt" /\ hash.of = password

\* a row of table users, as the queries of lines 123-130 and 157-164 read it
Row(id, input, role) ==
    [id |-> id, username |-> input.username, email |-> input.email,
     password_hash |-> HashPassword(input.password), role |-> role,
     is_active |-> TRUE]
NoRow ==
    [id |-> 0, username |-> "", email |-> "",
     password_hash |-> [alg |-> "none", of |-> ""], role |-> "User",
     is_active |-> FALSE]

\* what generate_token reads of a User: id, username, role
UserOf(row) == [id |-> row.id, username |-> row.username, role |-> row.role]

\* the results of register_user and login_user; row is the directory row
\* the call worked on, why the branch in which the call was rejected
NoResult ==
    [ok |-> FALSE, kind |-> "none", msg |-> "", token |-> NoToken,
     expires_at |-> 0, row |-> NoRow, why |-> "none"]
AuthResponse(row, token, expires_at) ==
    [ok |-> TRUE, kind |-> "AuthResponse", msg |-> "", token |-> token,
     expires_at |-> expires_at, row |-> row, why |-> "none"]
Err(kind, msg, why) ==
    [ok |-> FALSE, kind |-> kind, msg |-> msg, token |-> NoToken,
     expires_at |-> 0, row |-> NoRow, why |-> why]

\* no directory query made yet: the existence check and the insert of
\* register_user, the lookup of login_user
NoQueries == [check |-> 0, insert |-> 0, query |-> 0]

\* the AppError::Database a failed query ends the call with
\* (map_err(AppError::Database)?, lines 113, 139, 169)
DirectoryError(why) == Err("Database", "connection refused", why)

InitDir ==
    /\ users = {}
    /\ nextid = 1
    /\ apc = [t \in Workers |-> "idle"]
    /\ ain = [t \in Workers |-> NoInput]
    /\ ares = [t \in Workers |-> NoResult]
    /\ dirup = TRUE
    /\ dcalls = [t \in Workers |-> NoQueries]

\* register_user is called, line 104
Register_Start(t, input) ==
    /\ apc[t] = "idle"
    /\ \A q \in Workers : q < t => apc[q] # "idle"
    /\ Cardinality(issued) < MaxTokens
    /\ apc' = [apc EXCEPT ![t] = "reg_check"]
    /\ ain' = [ain EXCEPT ![t] = RegisterCall(input)]
    /\ UNCHANGED <<clock, mwvars, guardvars, authvars, perm, conv,
                   users, nextid, ares, dirup, dcalls>>

\* SELECT COUNT(*) ... WHERE username = $1 OR email = $2, lines 106-113
ExistingCount(rows, username, email) ==
    Cardinality({ u \in rows : u.username = username \/ u.email = email })

\* the error of lines 115-117
ExistsError ==
    Err("Validation", "Username or email already exists", "exists")

\* a failed existence check after which the call goes on to the insert
FailedCheckProceeds == "reg_insert"

\* line 113: the ? operator returns from register_user
FailedCheckNext == "done"

\* lines 106-117: the existence pre-check
Register_Check(t) ==
    /\ apc[t] = "reg_check"
    /\ dcalls' = [dcalls EXCEPT ![t].check = @ + 1]
    /\ IF ~dirup
       THEN /\ ares' = [ares EXCEPT ![t] = DirectoryError("check_failed")]
            /\ apc' = [apc EXCEPT ![t] = FailedCheckNext]
       ELSE IF ExistingCount(users, ain[t].username, ain[t].email) > 0
       THEN /\ ares' = [ares EXCEPT ![t] = ExistsError]
            /\ apc' = [apc EXCEPT ![t] = "done"]
       ELSE /\ apc' = [apc EXCEPT ![t] = "reg_insert"]
            /\ UNCHANGED ares
    /\ UNCHANGED <<clock, mwvars, guardvars, authvars, perm, conv,
                   users, nextid, ain, dirup>>

\* the unique constraints of table users on username and on email
UniqueViolation(rows, row) ==
    \E u \in rows : u.username = row.username \/ u.email = row.email

\* an insert that never reports an error
InsertFailsNever(rows, row) == FALSE

\* lines 137-139: fetch_one of the INSERT returns Err when the directory
\* refuses the row, and the ? operator returns AppError::Database
InsertFails(rows, row) == UniqueViolation(rows, row)

\* a directory whose first account is made an administrator
NewAccountRoleFirstAdmin(rows) == IF rows = {} THEN "Admin" ELSE "User"

\* line 135: the role bound to the INSERT is UserRole::User; RegisterInput
\* has no field for it
NewAccountRole(rows) == "User"

\* lines 119-142: hash the password, INSERT ... RETURNING, generate_token
Register_Insert(t) ==
    LET row == Row(nextid, ain[t], NewAccountRole(users))
    IN  /\ apc[t] = "reg_insert"
        /\ dcalls' = [dcalls EXCEPT ![t].insert = @ + 1]
        /\ IF ~dirup
           THEN /\ ares' = [ares EXCEPT ![t] =
                               DirectoryError("insert_failed")]
                /\ apc' = [apc EXCEPT ![t] = "done"]
                /\ UNCHANGED <<users, nextid, jti, issued>>
           ELSE IF InsertFails(users, row)
           THEN /\ ares' = [ares EXCEPT ![t] =
                               Err("Database", "unique violation", "insert")]
                /\ apc' = [apc EXCEPT ![t] = "done"]
                /\ UNCHANGED <<users, nextid, jti, issued>>
           ELSE /\ Cardinality(issued) < MaxTokens
                /\ users' = users \cup {row}
                /\ nextid' = nextid + 1
                /\ jti' = jti + 1
                /\ issued' = issued \cup
                      {[tok |-> TokenFor(UserOf(row), utc, jti + 1),
                        user |-> UserOf(row), at |-> utc]}
                /\ ares' = [ares EXCEPT ![t] =
                      AuthResponse(row, TokenFor(UserOf(row), utc, jti + 1),
                                   0)]
                /\ apc' = [apc EXCEPT ![t] = "expiry"]
        /\ UNCHANGED <<clock, mwvars, guardvars, perm, conv, utc, leeway,
                       vres, ain, dirup>>

\* the error of line 171 as a NotFound
NoAccountErrorNotFound(why) == Err("NotFound", "User not found", why)

\* line 171: no row came back
NoAccountError(why) == Err("Validation", "Invalid credentials", why)

\* line 175: verify_password returned false
WrongPasswordError(why) == Err("Validation", "Invalid credentials", why)

\* SELECT ... WHERE (email = $1 OR username = $1) AND is_active = true,
\* lines 157-169
ActiveMatches(rows, ident) ==
    { u \in rows : (u.email = ident \/ u.username = ident) /\ u.is_active }

\* the rows that match the identifier, active or not
Matches(rows, ident) ==
    { u \in rows : u.email = ident \/ u.username = ident }

\* login_user, lines 155-179, taken in one step: the query,
\* verify_password, generate_token
Login(t, input) ==
    LET found == ActiveMatches(users, input.email_or_username)
        why == IF Matches(users, input.email_or_username) = {}
               THEN "no_account" ELSE "inactive"
    IN  /\ apc[t] = "idle"
        /\ \A q \in Workers : q < t => apc[q] # "idle"
        /\ ain' = [ain EXCEPT ![t] = LoginCall(input)]
        /\ dcalls' = [dcalls EXCEPT ![t].query = @ + 1]
        /\ IF ~dirup
           THEN /\ ares' = [ares EXCEPT ![t] = DirectoryError("query_failed")]
                /\ apc' = [apc EXCEPT ![t] = "done"]
                /\ UNCHANGED <<jti, issued>>
           ELSE IF found = {}
           THEN /\ ares' = [ares EXCEPT ![t] = NoAccountError(why)]
                /\ apc' = [apc EXCEPT ![t] = "done"]
                /\ UNCHANGED <<jti, issued>>
           ELSE \E row \in found :
                  IF ~VerifyPassword(input.password, row.password_hash)
                  THEN /\ ares' = [ares EXCEPT ![t] =
                                      WrongPasswordError("wrong_password")]
                       /\ apc' = [apc EXCEPT ![t] = "done"]
                       /\ UNCHANGED <<jti, issued>>
                  ELSE /\ Cardinality(issued) < MaxTokens
                       /\ jti' = jti + 1
                       /\ issued' = issued \cup
                             {[tok |-> TokenFor(UserOf(row), utc, jti + 1),
                               user |-> UserOf(row), at |-> utc]}
                       /\ ares' = [ares EXCEPT ![t] =
                             AuthResponse(row,
                                 TokenFor(UserOf(row), utc, jti + 1), 0)]
                       /\ apc' = [apc EXCEPT ![t] = "expiry"]
        /\ UNCHANGED <<clock, mwvars, guardvars, perm, conv, utc, leeway,
                       vres, users, nextid, dirup>>

\* login_user is called, line 155
Login_Start(t, input) ==
    /\ apc[t] = "idle"
    /\ \A q \in Workers : q < t => apc[q] # "idle"
    /\ Cardinality(issued) < MaxTokens
    /\ apc' = [apc EXCEPT ![t] = "login_query"]
    /\ ain' = [ain EXCEPT ![t] = LoginCall(input)]
    /\ UNCHANGED <<clock, mwvars, guardvars, authvars, perm, conv,
                   users, nextid, ares, dirup, dcalls>>

\* line 171: ok_or_else(...)? returns when no row came back
QueryNext(found) == IF found THEN "login_verify" ELSE "done"

\* lines 157-171: the lookup is awaited; the row that came back is kept
\* in user
Login_Query(t) ==
    LET found == ActiveMatches(users, ain[t].username)
        why == IF Matches(users, ain[t].username) = {}
               THEN "no_account" ELSE "inactive"
    IN  /\ apc[t] = "login_query"
        /\ dcalls' = [dcalls EXCEPT ![t].query = @ + 1]
        /\ IF ~dirup
           THEN /\ ares' = [ares EXCEPT ![t] = DirectoryError("query_failed")]
                /\ apc' = [apc EXCEPT ![t] = "done"]
           ELSE IF found = {}
           THEN /\ ares' = [ares EXCEPT ![t] = NoAccountError(why)]
                /\ apc' = [apc EXCEPT ![t] = QueryNext(FALSE)]
           ELSE \E row \in found :
                   /\ ares' = [ares EXCEPT ![t] = [NoResult EXCEPT !.row = row]]
                   /\ apc' = [apc EXCEPT ![t] = QueryNext(TRUE)]
        /\ UNCHANGED <<clock, mwvars, guardvars, authvars, perm, conv,
                       users, nextid, ain, dirup>>

\* a verification after which every attempt goes on to token issuance
VerifyNextAlways(ok) == "login_issue"

\* lines 174-176: return Err(...) when verify_password gave false
VerifyNext(ok) == IF ok THEN "login_issue" ELSE "done"

\* lines 173-176: verify_password on the password_hash of the row
Login_Verify(t) ==
    LET ok == VerifyPassword(ain[t].password, ares[t].row.password_hash)
    IN  /\ apc[t] = "login_verify"
        /\ ares' = [ares EXCEPT ![t] =
                       IF ok THEN @ ELSE WrongPasswordError("wrong_password")]
        /\ apc' = [apc EXCEPT ![t] = VerifyNext(ok)]
        /\ UNCHANGED <<clock, mwvars, guardvars, authvars, perm, conv,
                       users, nextid, ain, dirup, dcalls>>

\* lines 178-179: generate_token for the row
Login_Issue(t) ==
    LET row == ares[t].row
    IN  /\ apc[t] = "login_issue"
        /\ Cardinality(issued) < MaxTokens
        /\ jti' = jti + 1
        /\ issued' = issued \cup
              {[tok |-> TokenFor(UserOf(row), utc, jti + 1),
                user |-> UserOf(row), at |-> utc]}
        /\ ares' = [ares EXCEPT ![t] =
              AuthResponse(row, TokenFor(UserOf(row), utc, jti + 1), 0)]
        /\ apc' = [apc EXCEPT ![t] = "expiry"]
        /\ UNCHANGED <<clock, mwvars, guardvars, perm, conv, utc, leeway,
                       vres, users, nextid, ain, dirup, dcalls>>

\* lines 143-151 and 180-188: expires_at from a second reading of the
\* clock, and the response
Auth_Expiry(t) ==
    /\ apc[t] = "expiry"
    /\ apc' = [apc EXCEPT ![t] = "done"]
    /\ ares' = [ares EXCEPT ![t] =
                   [@ EXCEPT !.expires_at = utc + JwtExpiryHours]]
    /\ UNCHANGED <<clock, mwvars, guardvars, authvars, perm, conv,
                   users, nextid, ain, dirup, dcalls>>

\* the caller has its result
Auth_Return(t) ==
    /\ apc[t] = "done"
    /\ apc' = [apc EXCEPT ![t] = "idle"]
    /\ ain' = [ain EXCEPT ![t] = NoInput]
    /\ ares' = [ares EXCEPT ![t] = NoResult]
    /\ dcalls' = [dcalls EXCEPT ![t] = NoQueries]
    /\ UNCHANGED <<clock, mwvars, guardvars, authvars, perm, conv,
                   users, nextid, dirup>>

\* the directory's owner sets is_active = false on an account
Dir_Deactivate(id) ==
    /\ \E u \in users : u.id = id /\ u.is_active
    /\ users' = { IF u.id = id THEN [u EXCEPT !.is_active = FALSE] ELSE u :
                    u \in users }
    /\ UNCHANGED <<clock, mwvars, guardvars, authvars, perm, conv,
                   nextid, apc, ain, ares, dirup, dcalls>>

\* the directory's owner deletes an account
Dir_Delete(id) ==
    /\ \E u \in users : u.id = id
    /\ users' = { u \in users : u.id # id }
    /\ UNCHANGED <<clock, mwvars, guardvars, authvars, perm, conv,
                   nextid, apc, ain, ares, dirup, dcalls>>

\* the directory's owner promotes an account to another role
Dir_SetRole(id, role) ==
    /\ \E u \in users : u.id = id /\ u.role # role
    /\ users' = { IF u.id = id THEN [u EXCEPT !.role = role] ELSE u :
                    u \in users }
    /\ UNCHANGED <<clock, mwvars, guardvars, authvars, perm, conv,
                   nextid, apc, ain, ares, dirup, dcalls>>

\* the directory stops answering: every query fails from now on
Dir_Down ==
    /\ dirup
    /\ dirup' = FALSE
    /\ UNCHANGED <<clock, mwvars, guardvars, authvars, perm, conv,
                   users, nextid, apc, ain, ares, dcalls>>

\* the directory answers again
Dir_Up ==
    /\ ~dirup
    /\ dirup' = TRUE
    /\ UNCHANGED <<clock, mwvars, guardvars, authvars, perm, conv,
                   users, nextid, apc, ain, ares, dcalls>>

\* a secret other than AuthService.jwt_secret
OtherSecret == "not-the-jwt-secret"

\* what a client can make of a token it holds without the secret: the payload
\* rewritten under the old signature, the rewritten payload signed with
\* another secret, and the string cut short of its signature segment
Forgeries(tok) ==
    LET admin == [tok.payload EXCEPT !.role = "admin", !.sub = 1,
                                     !.exp = tok.payload.exp + JwtExpiryHours]
    IN  { [tok EXCEPT !.payload = admin],
          [tok EXCEPT !.payload = admin,
                      !.sig = Sign(OtherSecret, tok.header, admin)],
          [tok EXCEPT !.segments = 2] }

\* the tokens clients present: the issued ones and what they make of them
Presented == UNION { {i.tok} \cup Forgeries(i.tok) : i \in issued }

(* --------------------------- specification ----------------------------- *)

Init ==
    /\ InitStack /\ InitLog /\ InitGuard /\ InitAuth /\ InitPerm /\ InitDir
    /\ InitConv

Next ==
    \/ Tick
    \/ \E r \in Workers : RL_Enter(r)
    \/ \E r \in Workers : RL_Write(r)
    \/ \E r \in Workers : RL_Retain(r)
    \/ \E r \in Workers : RL_Entry(r)
    \/ \E r \in Workers : RL_Window(r)
    \/ \E r \in Workers : RL_Update(r)
    \/ \E r \in Workers : RL_Limit(r)
    \/ \E r \in Workers : CSRF_Check(r)
    \/ \E r \in Workers : SH_Enter(r)
    \/ \E r \in Workers : RID_Enter(r)
    \/ \E r \in Workers : Handler_Start(r)
    \/ \E r \in Workers : Handler_Finish(r)
    \/ \E r \in Workers : RID_Exit(r)
    \/ \E r \in Workers : SH_Exit(r)
    \/ \E r \in Workers : RL_Return(r)
    \/ \E r \in Workers : Respond(r)

Spec == Init /\ [][Next]_vars

\* one client sends a burst of requests, and the instant of every Allowed
\* answer is logged
BurstXff == { Header(<<"a">>) }

Burst_Enter(r) == Arrive(r, MaxBurstArrivals, BurstXff)

BurstInit ==
    /\ InitStack /\ InitGuard /\ InitAuth /\ InitPerm /\ InitDir
    /\ InitConv
    /\ hist = [NoLog EXCEPT !.on = TRUE]

BurstNext ==
    \/ Advance(MaxBurstTime)
    \/ \E r \in Workers : Burst_Enter(r)
    \/ \E r \in Workers : RL_Write(r)
    \/ \E r \in Workers : RL_Retain(r)
    \/ \E r \in Workers : RL_Entry(r)
    \/ \E r \in Workers : RL_Window(r)
    \/ \E r \in Workers : RL_Update(r)
    \/ \E r \in Workers : RL_Limit(r)
    \/ \E r \in Workers : CSRF_Check(r)
    \/ \E r \in Workers : SH_Enter(r)
    \/ \E r \in Workers : RID_Enter(r)
    \/ \E r \in Workers : Handler_Start(r)
    \/ \E r \in Workers : Handler_Finish(r)
    \/ \E r \in Workers : RID_Exit(r)
    \/ \E r \in Workers : SH_Exit(r)
    \/ \E r \in Workers : RL_Return(r)
    \/ \E r \in Workers : Respond(r)

SpecBurst == BurstInit /\ [][BurstNext]_vars

GuardInit ==
    /\ InitStack /\ InitLog /\ InitAuth /\ InitPerm /\ InitDir
    /\ InitConv
    /\ gin \in GuardInputs /\ gout = "none"

GuardNext == Guard_Apply

SpecGuard == GuardInit /\ [][GuardNext]_vars

AuthNext ==
    \/ UtcTick
    \/ \E u \in Accounts : GenerateToken(u)
    \/ \E i \in issued : ValidateToken(i.tok)

SpecAuth == Init /\ [][AuthNext]_vars

AccountsNext ==
    \/ \E t \in Workers, i \in RegisterInputs : Register_Start(t, i)
    \/ \E t \in Workers : Register_Check(t)
    \/ \E t \in Workers : Register_Insert(t)
    \/ \E t \in Workers, i \in LoginInputs : Login(t, i)
    \/ \E t \in Workers : Auth_Expiry(t)
    \/ \E t \in Workers : Auth_Return(t)
    \/ \E id \in 1..MaxTokens : Dir_Deactivate(id)
    \/ \E id \in 1..MaxTokens, role \in Roles \ {"User"} :
          Dir_SetRole(id, role)

SpecAccounts == Init /\ [][AccountsNext]_vars

\* the registrations of alice and of bob under their own addresses, and
\* the logins with alice's password
OwnAddressInputs ==
    { i \in RegisterInputs :
        (i.username = "alice") = (i.email = "alice@example.com") }
AliceLogins == { i \in LoginInputs : i.password = "pw-alice" }

\* one caller registers and logs in while the directory's owner deactivates
\* and deletes accounts, the clock advances and tokens are validated
RevokeNext ==
    \/ UtcAdvance(DirMaxUtc)
    \/ \E i \in OwnAddressInputs : Register_Start(1, i)
    \/ Register_Check(1)
    \/ Register_Insert(1)
    \/ \E i \in AliceLogins : Login(1, i)
    \/ Auth_Expiry(1)
    \/ Auth_Return(1)
    \/ \E id \in 1..MaxTokens : Dir_Deactivate(id)
    \/ \E id \in 1..MaxTokens : Dir_Delete(id)
    \/ \E i \in issued : ValidateToken(i.tok)

SpecRevoke == Init /\ [][RevokeNext]_vars

\* register_user and login_user step by step, with a directory that can
\* stop answering
StepsNext ==
    \/ \E t \in Workers, i \in OwnAddressInputs : Register_Start(t, i)
    \/ \E t \in Workers : Register_Check(t)
    \/ \E t \in Workers : Register_Insert(t)
    \/ \E t \in Workers, i \in LoginInputs : Login_Start(t, i)
    \/ \E t \in Workers : Login_Query(t)
    \/ \E t \in Workers : Login_Verify(t)
    \/ \E t \in Workers : Login_Issue(t)
    \/ \E t \in Workers : Auth_Expiry(t)
    \/ \E t \in Workers : Auth_Return(t)
    \/ Dir_Down
    \/ Dir_Up

SpecSteps == Init /\ [][StepsNext]_vars

ErrNext == \E e \in AppErrors : Convert(e)

SpecErr == Init /\ [][ErrNext]_vars

PermNext == \E h \in Roles, q \in Roles : Check_Permission(h, q)

SpecPerm == Init /\ [][PermNext]_vars

ForgeNext ==
    \/ UtcAdvance(ForgeMaxUtc)
    \/ \E u \in Accounts : GenerateToken(u)
    \/ \E t \in Presented : ValidateToken(t)

SpecForge == Init /\ [][ForgeNext]_vars

(* ------------------------- claims: rate limiter ------------------------ *)

\* only one client identifier has sent requests so far
OneClient == Cardinality(seen) <= 1

\* no task is between taking the write guard and its limit decision
Quiet == \A r \in Workers : pc[r] \notin CriticalSection

\* C1: with one client and max_requests = N, the limiter answers as the
\* fixed-window counter does: of the requests that arrive while less than
\* window_duration has elapsed since the first of them exactly the first N
\* are Allowed and the later ones Denied, and the first request that arrives
\* once the window has elapsed is Allowed and leaves the counter at 1 with
\* its own instant as the window start.
C1_FixedWindow ==
    OneClient =>
        /\ \A r \in Workers :
              verdict[r].rl # "none" => verdict[r].rl = verdict[r].expect
        /\ Quiet =>
              \A c \in Clients :
                  ref[c].open => requests[c] = Entry(ref[c].k, ref[c].start)

\* four calls of one client in a window got Allowed, Allowed, Denied (the
\* window before held more than max_requests calls), and the call after the
\* window elapsed has just been Allowed with the counter reset to 1
C1_Witness ==
    /\ OneClient
    /\ \E r \in Workers, c \in Clients :
          /\ pc[r] = "csrf"
          /\ verdict[r].rl = "allowed"
          /\ seen = {c}
          /\ ref[c].prev > MaxRequests
          /\ ref[c].start >= WindowDuration
          /\ requests[c] = Entry(1, ref[c].start)

\* C2: the steps of one check_rate_limit call (evict, lookup-or-insert,
\* increment, compare) never interleave with those of another call: at most
\* one task is in them at a time, every call that went through them is in
\* the counter of its window (no increment is lost), and at most
\* max_requests calls of a window are Allowed.
C2_Atomic ==
    /\ Cardinality({r \in Workers : pc[r] \in CriticalSection}) <= 1
    /\ \A c \in Clients :
          /\ requests[c].count = calls[c].n
          /\ calls[c].ok <= MaxRequests

\* two calls of one client are in flight in a window that has already
\* admitted max_requests calls: one is at its limit test, over the limit,
\* the other waits for the guard
C2_Witness ==
    \E r, q \in Workers :
        /\ r # q
        /\ loc[r].client = loc[q].client
        /\ pc[r] = "rl_limit" /\ pc[q] = "rl_lock"
        /\ requests[loc[r].client].count = MaxRequests + 1
        /\ calls[loc[r].client].ok = MaxRequests

\* C3: the write guard covers only eviction, lookup-or-insert, increment or
\* reset and the limit test, and is released before the downstream stages
\* (next.run) start, so that a request whose handler has not completed
\* blocks no other request's admit decision.
C3_GuardReleasedBeforeNext ==
    \A r \in Workers : pc[r] \in Downstream => lock # r

RECURSIVE AllowedBetween(_, _)
\* the number of Allowed answers logged at the instants from to last
AllowedBetween(from, last) ==
    IF from > last THEN 0
    ELSE hist.at[from] + AllowedBetween(from + 1, last)

\* the last instant of the interval of length window_duration that starts
\* at from, within the instants logged
IntervalEnd(from) ==
    IF from + WindowDuration > MaxBurstTime THEN MaxBurstTime
    ELSE from + WindowDuration

BeforeComma(v) ==
    LET commas == { i \in 1..Len(v) : v[i] = "," }
    IN  IF commas = {} THEN v
        ELSE SubSeq(v, 1, (CHOOSE i \in commas : \A j \in commas : i <= j) - 1)

\* a character that is not white space
NotSpace(ch) == ch # " "

\* the bucket the specification gives a request: "unknown" without a
\* forwarded-address header, else the first comma-separated entry of the
\* header without its white space
BucketOf(xff) ==
    IF xff.present THEN SelectSeq(BeforeComma(xff.value), NotSpace)
    ELSE <<"u", "n", "k", "n", "o", "w", "n">>

C24_EvictionFirst ==
    \A r \in Workers :
        /\ pc[r] \in CriticalSection \ {"rl_retain"} =>
              \A c \in Clients :
                  requests[c].present =>
                      loc[r].now - requests[c].start < WindowDuration
        /\ pc[r] = "rl_limit" =>
              \A c \in Clients : requests[c].present => requests[c].count >= 1
        /\ pc[r] \in {"rl_entry", "rl_window", "rl_update"} =>
              \A c \in Clients :
                  requests[c].present /\ c # loc[r].client =>
                      requests[c].count >= 1

\* a call of one client that is over the limit has evicted the entry of
\* another client, whose window had elapsed at the instant of the call
C24_Witness ==
    \E r \in Workers, c \in Clients :
        /\ pc[r] = "rl_limit" /\ c # loc[r].client
        /\ requests[loc[r].client].count > MaxRequests
        /\ ref[c].open /\ loc[r].now - ref[c].start >= WindowDuration
        /\ ~requests[c].present

\* C25: a Denied request increments the client's counter and leaves the
\* window start as it is; a client that has been Denied in a window is
\* Denied again by every request whose instant lies less than
\* window_duration after the window start, and its first request at or
\* after that instant is Allowed, in a new window that starts with it,
\* however many Denied requests there were; no request of a Denied client
\* is Allowed before the window has elapsed.
C25_DeniedKeepsWindow ==
    [][\A r \in Workers :
          pc[r] = "rl_limit" /\ pc'[r] # "rl_limit" =>
              LET c == loc[r].client
                  found == loc[r].pre
                  elapsed == loc[r].now - found.start >= WindowDuration
              IN  /\ verdict'[r].rl = "denied" =>
                        /\ found.present
                        /\ requests'[c] = Entry(found.count + 1, found.start)
                  /\ found.present /\ found.count > MaxRequests /\ ~elapsed =>
                        verdict'[r].rl = "denied"
                  /\ found.present /\ elapsed =>
                        /\ verdict'[r].rl = "allowed"
                        /\ requests'[c] = Entry(1, loc[r].now)
                  /\ /\ found.present /\ found.count > MaxRequests
                     /\ verdict'[r].rl = "allowed"
                     => clock >= found.start + WindowDuration
      ]_vars

\* a client whose window held a Denied request comes back when the window
\* has elapsed: its call is at the limit decision with a new window of
\* count 1 that starts at its own instant
C25_Witness ==
    \E r \in Workers :
        /\ pc[r] = "rl_limit"
        /\ loc[r].pre.present /\ loc[r].pre.count > MaxRequests
        /\ loc[r].now - loc[r].pre.start >= WindowDuration
        /\ requests[loc[r].client] = Entry(1, loc[r].now)

\* C27: the limiter keeps clients apart: a call for one client never
\* changes the count or the window start of another client's entry whose
\* window has not elapsed, and the Allowed / Denied answers a client gets
\* are those it gets when it is the only client (the answers of the
\* fixed-window counter fed with its requests alone), whatever requests
\* other clients make.
C27_ClientsIsolated ==
    /\ [][\A r \in Workers, b \in Clients :
              /\ pc[r] \in CriticalSection /\ b # loc[r].client
              /\ requests[b].present
              /\ clock - requests[b].start < WindowDuration
              => requests'[b] = requests[b]
        ]_vars
    /\ [](\A r \in Workers :
              verdict[r].rl # "none" => verdict[r].rl = verdict[r].expect)

\* C30: the explicit reset branch of check_rate_limit (now - window_start
\* >= window_duration, count = 1) is never taken: eviction runs first under
\* the same guard, so the caller's entry after lookup-or-insert always has
\* now - window_start < window_duration, and a caller whose window had
\* elapsed gets a freshly inserted entry whose count becomes 1.
C30_ResetBranchDead ==
    \A r \in Workers :
        LET e == requests[loc[r].client]
            found == loc[r].pre
            elapsed == found.present
                       /\ loc[r].now - found.start >= WindowDuration
        IN  /\ pc[r] \in {"rl_update", "rl_limit"} => ~loc[r].reset
            /\ pc[r] \in {"rl_window", "rl_update", "rl_limit"} =>
                  e.present /\ loc[r].now - e.start < WindowDuration
            /\ pc[r] \in {"rl_window", "rl_update"} /\ elapsed =>
                  e = Entry(0, loc[r].now)
            /\ pc[r] = "rl_limit" /\ elapsed => e = Entry(1, loc[r].now)

\* a caller whose window had elapsed when it got the guard is at the
\* window test with an entry of count 0 that starts at its own instant
C30_Witness ==
    \E r \in Workers :
        /\ pc[r] = "rl_window"
        /\ loc[r].pre.present /\ loc[r].pre.count >= 1
        /\ loc[r].now - loc[r].pre.start >= WindowDuration
        /\ requests[loc[r].client] = Entry(0, loc[r].now)

(* ------------------------ claims: middleware stack --------------------- *)

\* C4: every response that leaves the stack, whatever its outcome (handler
\* response, 429 of the limiter, 403 of the origin guard), carries the
\* security headers and an x-request-id.
C4_HeadersOnEveryResponse ==
    \A r \in Workers :
        pc[r] = "done" =>
            SecurityHeaderNames \cup {"x-request-id"} \subseteq rsp[r].headers

\* C8: the application handler runs for a request only after the limiter
\* allowed it and the origin guard accepted it; it never runs for a request
\* answered 429 by the limiter or 403 by the guard.
C8_HandlerOnlyAfterAdmission ==
    \A r \in Workers :
        /\ verdict[r].handled =>
              verdict[r].rl = "allowed" /\ verdict[r].csrf = "pass"
        /\ pc[r] \in {"handling", "rid_out", "sec_out"} => verdict[r].handled
        /\ verdict[r].rl = "denied" \/ verdict[r].csrf = "reject" =>
              ~verdict[r].handled /\ rsp[r].status \in {403, 429}

\* a handler has run to completion for an admitted request, while another
\* request was refused by the limiter
C8_Witness ==
    \E r, q \in Workers :
        /\ verdict[r].handled /\ pc[r] = "sec_out" /\ rsp[r].status = 200
        /\ verdict[q].rl = "denied" /\ pc[q] = "done"

\* C28: the limiter runs before the origin guard for every request: a
\* request the guard rejects with 403 has already been counted in its
\* client's window and Allowed by the limiter, and a request the limiter
\* Denied is never evaluated by the guard.
C28_LimiterBeforeGuard ==
    \A r \in Workers :
        /\ pc[r] = "csrf" \/ verdict[r].csrf # "none" =>
              verdict[r].counted /\ verdict[r].rl = "allowed"
        /\ verdict[r].csrf = "reject" /\ pc[r] = "done" =>
              rsp[r].status = 403
        /\ verdict[r].rl = "denied" =>
              verdict[r].counted /\ verdict[r].csrf = "none"

\* one request was counted, Allowed and then rejected by the guard with
\* 403; another was Denied by the limiter and never reached the guard
C28_Witness ==
    \E r, q \in Workers :
        /\ pc[r] = "done" /\ verdict[r].csrf = "reject"
        /\ verdict[r].counted /\ rsp[r].status = 403
        /\ pc[q] = "done" /\ verdict[q].rl = "denied"
        /\ verdict[q].csrf = "none" /\ rsp[q].status = 429

(* -------------------------- claims: origin guard ----------------------- *)

\* the methods the specification calls safe
SafeMethodNames == {"GET", "HEAD", "OPTIONS"}

\* the header is present and names a host of the trusted set
HostTrusted(h) ==
    /\ h.kind = "url"
    /\ \/ h.host = <<"localhost">>
       \/ Len(h.host) >= 3 /\ SubSeq(h.host, Len(h.host) - 1, Len(h.host))
                                 = <<"your-domain", "com">>

\* C5: a state-changing request is accepted if and only if its Origin is
\* present with a trusted host, or its Origin is absent and its Referer host
\* is trusted; a present Origin with an untrusted host is rejected even with
\* a trusted Referer. (An Origin header that does not parse is read here in
\* the code's favour, as no Origin at all.)
C5_OriginDecides ==
    gout # "none" /\ gin.method \notin SafeMethodNames =>
        (gout = "next" <=>
            \/ HostTrusted(gin.origin)
            \/ gin.origin.kind # "url" /\ HostTrusted(gin.referer))

\* C6: a state-changing request with neither an Origin nor a Referer header
\* is rejected with Forbidden.
C6_NoHeadersRejected ==
    /\ gout # "none"
    /\ gin.method \notin SafeMethodNames
    /\ gin.origin.kind = "absent" /\ gin.referer.kind = "absent"
    => gout = "forbidden"

\* a POST without Origin and Referer has been through the guard
C6_Witness ==
    /\ gout = "forbidden"
    /\ gin.method = "POST"
    /\ gin.origin.kind = "absent" /\ gin.referer.kind = "absent"

\* C7: a request with a safe method (GET, HEAD, OPTIONS) is passed to the
\* next stage whatever its Origin and Referer headers are.
C7_SafeMethodsPass ==
    gout # "none" /\ gin.method \in SafeMethodNames => gout = "next"

\* a HEAD request with an untrusted Origin and an untrusted Referer has been
\* through the guard
C7_Witness ==
    /\ gout = "next"
    /\ gin.method = "HEAD"
    /\ gin.origin = Url(<<"evil", "example">>)
    /\ gin.referer = Url(<<"evil", "example">>)

(* ------------------------- claims: token service ----------------------- *)

\* C9: for every account and every issue instant, validate_token of the
\* token generate_token returned, called before the expiry instant (issue
\* instant plus the configured lifetime) with the same secret, succeeds and
\* returns claims with the account's id as sub, its role and its username.
C9_RoundTrip ==
    \A i \in issued :
        vres.tok = i.tok /\ vres.at < i.at + JwtExpiryHours =>
            /\ vres.res.ok
            /\ vres.res.claims.sub = i.user.id
            /\ vres.res.claims.role = i.user.role
            /\ vres.res.claims.username = i.user.username

\* the token of an Admin account was validated one tick after it was issued
C9_Witness ==
    \E i \in issued :
        /\ i.user.role = "Admin"
        /\ vres.tok = i.tok
        /\ vres.at = i.at + 1 /\ vres.at < i.at + JwtExpiryHours
        /\ vres.res.ok

\* C10: expiry is strict: validate_token at any instant after expires_at
\* fails with Unauthorized, and validate_token one tick before expires_at
\* succeeds; there is no grace interval after expires_at.
C10_StrictExpiry ==
    \A i \in issued :
        vres.tok = i.tok =>
            /\ vres.at > i.tok.payload.exp => ~vres.res.ok
            /\ vres.at = i.tok.payload.exp - 1 => vres.res.ok

\* C11: validate_token returns claims only for a token that generate_token
\* produced under the same secret; a token with a modified payload, a token
\* signed with another secret and a malformed string fail with Unauthorized.
C11_OnlyIssuedTokens ==
    /\ vres.res.ok => \E i \in issued : i.tok = vres.tok
    /\ (\A i \in issued : i.tok # vres.tok) => vres.res = Unauthorized

\* a token whose payload was rewritten to the admin role under the old
\* signature was presented before the original's expiry and refused
C11_Witness ==
    \E i \in issued :
        /\ i.user.role = "User"
        /\ vres.tok = [i.tok EXCEPT !.payload.role = "admin",
                                    !.payload.sub = 1,
                                    !.payload.exp = i.tok.payload.exp
                                                      + JwtExpiryHours]
        /\ vres.at < i.tok.payload.exp
        /\ vres.res = Unauthorized

\* C12: two tokens issued by two generate_token calls are never equal, even
\* for the same account at the same instant, where sub, username, role, iat
\* and exp coincide: each call draws its own token id.
C12_TokensDistinct ==
    /\ Cardinality(issued) = jti
    /\ Cardinality({ i.tok : i \in issued }) = jti

\* two tokens were issued for one account at one instant
C12_Witness ==
    \E i, j \in issued :
        /\ i # j
        /\ i.user = j.user /\ i.at = j.at
        /\ i.tok.payload.exp = j.tok.payload.exp
        /\ i.tok.payload.jti # j.tok.payload.jti

(* ---------------------------- claims: roles ---------------------------- *)

\* the place of a role in the order User < Author < Admin
Rank(role) ==
    CASE role = "User" -> 1 [] role = "Author" -> 2 [] role = "Admin" -> 3

\* C14: check_permission(held, required) is rank(held) >= rank(required)
\* under User < Author < Admin, for all nine combinations.
C14_PermissionIsRankOrder ==
    \A p \in perm : p.result = (Rank(p.held) >= Rank(p.required))

\* all nine combinations have been asked; an Author was granted
\* Author-level access and a User was refused it
C14_Witness ==
    /\ Cardinality(perm) = 9
    /\ [held |-> "Author", required |-> "Author", result |-> TRUE] \in perm
    /\ [held |-> "User", required |-> "Author", result |-> FALSE] \in perm

(* ------------------------ claims: error conversion --------------------- *)

\* the kinds whose detail stays on the server
InternalKinds == {"Database", "Internal", "Config"}

\* the characters or parts of a message, as a set
Parts(msg) == { msg[i] : i \in 1..Len(msg) }

\* C21: converted for the external caller, a Database, Internal or Config
\* error is exactly the fixed message "Internal server error" and holds
\* nothing of the underlying error; only NotFound, Unauthorized, Forbidden,
\* Validation and RateLimitExceeded keep a message of their own kind.
C21_InternalDetailHidden ==
    \A c \in conv :
        /\ c.err.kind \in InternalKinds =>
              /\ c.out = <<"Internal server error">>
              /\ c.err.detail \notin Parts(c.out)
        /\ c.err.kind \notin InternalKinds =>
              /\ c.out # <<"Internal server error">>
              /\ \A d \in conv : d.err.kind # c.err.kind => d.out[1] # c.out[1]
              /\ c.err.kind \in PayloadKinds => c.err.detail \in Parts(c.out)

\* every error has been converted, among them a Database error with the
\* text of the driver and a Validation error with its message
C21_Witness ==
    /\ { c.err : c \in conv } = AppErrors
    /\ \E c \in conv :
          /\ c.err.kind = "Database"
          /\ c.err.detail = "connection refused 10.0.0.5:5432"
          /\ c.out = <<"Internal server error">>
    /\ \E c \in conv :
          /\ c.err.kind = "Validation"
          /\ c.out = <<"Validation error: ", "Invalid credentials">>

(* ----------------------- claims: login and register -------------------- *)

\* C13: the outcome of validate_token is a function of the token, the
\* secret and the clock alone, never of the Account Directory: a token stays
\* valid until its expiry after its account was deactivated or deleted, and
\* nothing this core does invalidates it earlier.
C13_ValidationIgnoresDirectory ==
    /\ vres.res = Decode(vres.tok, JwtSecret, vres.at, leeway)
    /\ \A i \in issued :
          vres.tok = i.tok /\ vres.at <= i.tok.payload.exp => vres.res.ok

\* the second token of account 1, issued at login, was validated with
\* success at a later instant at which the account was inactive, and the
\* account is still in the directory, inactive
C13_Witness ==
    \E i \in issued :
        /\ i.tok.payload.sub = 1 /\ i.tok.payload.jti = 2
        /\ vres.tok = i.tok /\ vres.at > i.at
        /\ vres.res.ok /\ ~vres.live
        /\ \E u \in users : u.id = 1 /\ ~u.is_active

\* the login_user call of task t was rejected
LoginRejected(t) ==
    ain[t].op = "login" /\ apc[t] = "done" /\ ~ares[t].ok

\* C15: login_user fails with the same error kind and the same message
\* whether the identifier matches no account, matches only an inactive
\* account (even with the right password), or matches an active account
\* with another password.
C15_LoginRejectionsAlike ==
    \A t, q \in Workers :
        LoginRejected(t) /\ LoginRejected(q) =>
            ares[t].kind = ares[q].kind /\ ares[t].msg = ares[q].msg

\* one login was rejected for an inactive account although its password
\* was right, another for a wrong password on an active account
C15_Witness ==
    \E t, q \in Workers :
        /\ LoginRejected(t) /\ ares[t].why = "inactive"
        /\ \E u \in users :
              /\ u.username = ain[t].username \/ u.email = ain[t].email
              /\ ~u.is_active /\ u.password_hash.of = ain[t].password
        /\ LoginRejected(q) /\ ares[q].why = "wrong_password"

\* C16: login_user returns an AuthResponse with a token only if the
\* directory returned an active account that matches the identifier as
\* username or email and whose stored hash the password verifies against;
\* sub and role of the token are that account's.
C16_LoginOnlyForVerifiedActive ==
    \A t \in Workers :
        ain[t].op = "login" /\ ares[t].ok =>
            /\ ares[t].row.is_active
            /\ \/ ares[t].row.username = ain[t].username
               \/ ares[t].row.email = ain[t].email
            /\ ares[t].row.password_hash.of = ain[t].password
            /\ ares[t].token \in { i.tok : i \in issued }
            /\ ares[t].token.payload.sub = ares[t].row.id
            /\ ares[t].token.payload.role = RoleToJson(ares[t].row.role)

\* an account that was made Admin logged in by its email address and got
\* its response
C16_Witness ==
    \E t \in Workers :
        /\ ain[t].op = "login" /\ apc[t] = "done" /\ ares[t].ok
        /\ ain[t].email = "alice@example.com"
        /\ ares[t].row.role = "Admin"
        /\ ares[t].token.payload.role = "admin"

\* C17: register_user with a username that is already in the directory
\* fails with the error kind Conflict.
C17_DuplicateUsernameConflict ==
    \A t \in Workers :
        /\ ain[t].op = "register" /\ apc[t] = "done"
        /\ ares[t].why = "exists"
        /\ \E u \in users : u.username = ain[t].username
        => ares[t].kind = "Conflict"

\* both calls are register_user calls with one username or one email
SameIdentity(t, q) ==
    /\ ain[t].op = "register" /\ ain[q].op = "register"
    /\ ain[t].username = ain[q].username \/ ain[t].email = ain[q].email

\* C18: with a directory that enforces uniqueness on insert, of two
\* concurrent register_user calls with the same username or the same email
\* at most one returns an AuthResponse and at most one account is created,
\* also when both passed the pre-check before either inserted; the other
\* call ends with an error.
C18_OneRegistrationWins ==
    /\ \A u, v \in users :
          u # v => u.username # v.username /\ u.email # v.email
    /\ \A t, q \in Workers :
          t # q /\ SameIdentity(t, q) =>
              /\ ~(ares[t].ok /\ ares[q].ok)
              /\ ares[t].ok /\ apc[q] = "done" => ares[q].kind # "none"

\* two calls with one username passed the pre-check together; one got its
\* AuthResponse, the other the error of the refused insert
C18_Witness ==
    \E t, q \in Workers :
        /\ t # q /\ SameIdentity(t, q)
        /\ ain[t].username = ain[q].username
        /\ ares[t].ok /\ apc[t] = "done"
        /\ apc[q] = "done" /\ ares[q].why = "insert"
        /\ Cardinality(users) = 1

\* C22: each login attempt follows the state machine in order: password
\* verification starts only when account resolution has completed with an
\* account, token issuance starts only when verification has completed
\* with result true, an attempt whose account is not found is Rejected
\* without any verification, and Rejected and Completed are terminal: the
\* result of a finished attempt never changes and no step follows it.
C22_LoginStateMachine ==
    [][\A t \in Workers :
          /\ apc'[t] = "login_verify" /\ apc[t] # "login_verify" =>
                /\ apc[t] = "login_query"
                /\ ares'[t].row \in ActiveMatches(users, ain[t].username)
          /\ apc'[t] = "login_issue" /\ apc[t] # "login_issue" =>
                /\ apc[t] = "login_verify"
                /\ ares[t].row.password_hash = HashPassword(ain[t].password)
          /\ ain'[t].op = "login" /\ ares'[t].ok /\ ~ares[t].ok =>
                apc[t] = "login_issue"
          /\ apc[t] = "login_query" /\ apc'[t] \notin {"login_query",
                                                       "login_verify"} =>
                /\ apc'[t] = "done" /\ ~ares'[t].ok
                /\ ares'[t].token = NoToken
          /\ ain[t].op = "login" /\ apc[t] = "done" =>
                \/ apc'[t] = "done" /\ ares'[t] = ares[t]
                \/ apc'[t] = "idle"
      ]_vars

\* one attempt is about to be issued its token, its account resolved and
\* its password verified, while another one, made before the account
\* existed, was Rejected after its lookup alone
C22_Witness ==
    \E t, q \in Workers :
        /\ apc[t] = "login_issue"
        /\ ares[t].row \in users
        /\ ares[t].row.password_hash = HashPassword(ain[t].password)
        /\ ain[q].op = "login" /\ apc[q] = "done"
        /\ ares[q].why = "no_account" /\ dcalls[q].query = 1

\* the ways a call ends on a directory query that failed
DirFailures == {"check_failed", "insert_failed", "query_failed"}

\* C23: register_user and login_user make every directory call at most
\* once per invocation: a call whose directory query failed has ended with
\* an error and without a token, has made no directory call after the one
\* that failed and has not repeated it; after a failed existence check no
\* insert was attempted.
C23_DirectoryFailureEndsCall ==
    \A t \in Workers :
        /\ dcalls[t].check <= 1 /\ dcalls[t].insert <= 1
        /\ dcalls[t].query <= 1
        /\ ares[t].why \in DirFailures =>
              /\ apc[t] = "done"
              /\ ~ares[t].ok /\ ares[t].kind = "Database"
              /\ ares[t].token = NoToken
              /\ ares[t].why = "check_failed" =>
                    dcalls[t] = [check |-> 1, insert |-> 0, query |-> 0]
              /\ ares[t].why = "insert_failed" =>
                    dcalls[t] = [check |-> 1, insert |-> 1, query |-> 0]
              /\ ares[t].why = "query_failed" =>
                    dcalls[t] = [check |-> 0, insert |-> 0, query |-> 1]

\* a registration passed its existence check and then lost the directory
\* at the insert; nothing was stored and no token issued; a login failed
\* at its lookup
C23_Witness ==
    \E t, q \in Workers :
        /\ ain[t].op = "register" /\ ares[t].why = "insert_failed"
        /\ dcalls[t].check = 1 /\ dcalls[t].insert = 1
        /\ users = {} /\ issued = {}
        /\ ain[q].op = "login" /\ ares[q].why = "query_failed"

\* C26: for every successful login_user or register_user the expires_at of
\* the AuthResponse equals the exp claim of its token, and exp - iat is the
\* configured lifetime, also when the clock advances between the steps of
\* the operation.
C26_ExpiryIsTokenExpiry ==
    \A t \in Workers :
        ares[t].ok /\ apc[t] = "done" =>
            /\ ares[t].expires_at = ares[t].token.payload.exp
            /\ ares[t].token.payload.exp - ares[t].token.payload.iat
                  = JwtExpiryHours

\* C29: every account register_user creates has role User, and the token
\* that register_user call returns carries role User: no input gives an
\* account or a token with role Author or Admin.
C29_RegisteredAsUser ==
    /\ [][\A u \in users' :
              (\A v \in users : v.id # u.id) => u.role = "User"]_vars
    /\ [](\A t \in Workers :
              ain[t].op = "register" /\ ares[t].ok =>
                  /\ ares[t].row.role = "User"
                  /\ ares[t].token.payload.sub = ares[t].row.id
                  /\ ares[t].token.payload.role = "user")

\* a registration has its response, account and token with role User,
\* while the account registered before it has been made Admin since
C29_Witness ==
    \E t \in Workers :
        /\ ain[t].op = "register" /\ apc[t] = "done" /\ ares[t].ok
        /\ ares[t].row.role = "User"
        /\ ares[t].token.payload.role = "user"
        /\ \E u \in users : u.id # ares[t].row.id /\ u.role = "Admin"

====
